---- MODULE Spec2Model ----
(***************************************************************************)
(* A model of streamlit_app.py: the indicator computation, the BUY / SELL / *)
(* HOLD classifier, the top-mover selection, the per-symbol signal loop and *)
(* the Telegram alert log of the Streamlit script.                          *)
(*                                                                          *)
(* Numbers are exact rationals n/d; floating-point rounding is not          *)
(* modelled.  A cell of a row is a number, NaN, a non-numeric value (None)  *)
(* or absent (the key is missing from the row).                             *)
(***************************************************************************)
EXTENDS Integers, Sequences, FiniteSets, TLC

VARIABLES
    pc,           \* position of the script / of the function under study
    latest_row,   \* the row handed to compute_signal
    result,       \* what compute_signal returned
    heap,         \* DataFrame objects, by identity
    arg,          \* identity of the frame handed to compute_indicators
    ret,          \* identity of the frame compute_indicators returned
    lib,          \* what pandas_ta returns for the frame under study, per bar
    symbols,      \* the ticker list of the run
    top_n,        \* "Top N movers to watch"
    idx,          \* index of the running for-loop
    records,      \* select_top_movers: records
    top_movers,   \* what select_top_movers returned
    signal_rows,  \* the signal table of the run
    telegram,     \* the bot token and chat id of the sidebar
    alert_log,    \* st.session_state: whether 'alert_log' is set, and the list
    visited       \* what the outside world answered during the run, in order

vars == <<pc, latest_row, result, heap, arg, ret, lib, symbols, top_n, idx, records,
          top_movers, signal_rows, telegram, alert_log, visited>>

(***************************************************************************)
(* Values and arithmetic                                                    *)
(***************************************************************************)
Num(n, d) == [k |-> "num", n |-> n, d |-> d]
NaN == [k |-> "nan", n |-> 0, d |-> 1]
NoneVal == [k |-> "none", n |-> 0, d |-> 1]
Missing == [k |-> "missing", n |-> 0, d |-> 1]

IsNum(a) == a.k = "num"
IsNaN(a) == a.k = "nan"

\* Python / IEEE comparisons: any comparison with NaN is False.
Gt(a, b) == IsNum(a) /\ IsNum(b) /\ a.n * b.d > b.n * a.d
Lt(a, b) == IsNum(a) /\ IsNum(b) /\ a.n * b.d < b.n * a.d
Ge(a, b) == IsNum(a) /\ IsNum(b) /\ a.n * b.d >= b.n * a.d
Le(a, b) == IsNum(a) /\ IsNum(b) /\ a.n * b.d <= b.n * a.d
NumEq(a, b) == IsNum(a) /\ IsNum(b) /\ a.n * b.d = b.n * a.d

\* Arithmetic propagates NaN; x / 0 is NaN for x = 0 (0/0), which is the only
\* division by zero the program's data can produce (volumes are >= 0).
Add(a, b) == IF IsNum(a) /\ IsNum(b) THEN Num(a.n * b.d + b.n * a.d, a.d * b.d) ELSE NaN
Sub(a, b) == IF IsNum(a) /\ IsNum(b) THEN Num(a.n * b.d - b.n * a.d, a.d * b.d) ELSE NaN
Mul(a, b) == IF IsNum(a) /\ IsNum(b) THEN Num(a.n * b.n, a.d * b.d) ELSE NaN
Div(a, b) ==
    IF IsNum(a) /\ IsNum(b) /\ b.n # 0
    THEN IF b.n > 0 THEN Num(a.n * b.d, a.d * b.n) ELSE Num(-(a.n * b.d), -(a.d * b.n))
    ELSE NaN
Abs(a) == IF IsNum(a) /\ a.n < 0 THEN Num(-a.n, a.d) ELSE a

(***************************************************************************)
(* compute_signal                                                           *)
(***************************************************************************)
RSI_BUY_LO == 55
RSI_BUY_HI == 70
RSI_SELL_LO == 30
RSI_SELL_HI == 45
VOL_BUY == Num(15, 10)
VOL_SELL == Num(13, 10)

SignalKeys == <<"Close", "VWAP", "EMA9", "EMA21", "RSI6", "vol_ratio">>

\* latest_row[key] raises KeyError(key) for an absent key; the first one wins.
FirstMissing(row) ==
    LET miss == {j \in 1..Len(SignalKeys) : row[SignalKeys[j]].k = "missing"}
    IN IF miss = {} THEN 0 ELSE CHOOSE j \in miss : \A m \in miss : j <= m

\* np.isnan([vwap, ema9, ema21, rsi6, vol_ratio])
CheckedCells(row) == <<row.VWAP, row.EMA9, row.EMA21, row.RSI6, row.vol_ratio>>

isnan_raises(row) == \E j \in 1..5 : CheckedCells(row)[j].k = "none"

isnan_any_drop_last(row) == \E j \in 1..4 : IsNaN(CheckedCells(row)[j])

isnan_any(row) == \E j \in 1..5 : IsNaN(CheckedCells(row)[j])

buy_cond_nonstrict(row) ==
    /\ Ge(row.Close, row.VWAP)
    /\ Ge(row.EMA9, row.EMA21)
    /\ Ge(row.RSI6, Num(RSI_BUY_LO, 1)) /\ Le(row.RSI6, Num(RSI_BUY_HI, 1))
    /\ Ge(row.vol_ratio, VOL_BUY)

buy_cond_low_volume(row) ==
    /\ Gt(row.Close, row.VWAP)
    /\ Gt(row.EMA9, row.EMA21)
    /\ Ge(row.RSI6, Num(RSI_BUY_LO, 1)) /\ Le(row.RSI6, Num(RSI_BUY_HI, 1))
    /\ Ge(row.vol_ratio, VOL_SELL)

buy_cond(row) ==
    /\ Gt(row.Close, row.VWAP)
    /\ Gt(row.EMA9, row.EMA21)
    /\ Ge(row.RSI6, Num(RSI_BUY_LO, 1)) /\ Le(row.RSI6, Num(RSI_BUY_HI, 1))
    /\ Ge(row.vol_ratio, VOL_BUY)

sell_cond_or(row) ==
    \/ Lt(row.Close, row.VWAP)
    \/ Lt(row.EMA9, row.EMA21)
    \/ Ge(row.RSI6, Num(RSI_SELL_LO, 1)) /\ Le(row.RSI6, Num(RSI_SELL_HI, 1))
    \/ Ge(row.vol_ratio, VOL_SELL)

sell_cond(row) ==
    /\ Lt(row.Close, row.VWAP)
    /\ Lt(row.EMA9, row.EMA21)
    /\ Ge(row.RSI6, Num(RSI_SELL_LO, 1)) /\ Le(row.RSI6, Num(RSI_SELL_HI, 1))
    /\ Ge(row.vol_ratio, VOL_SELL)

KeyErrorText(j) == "'" \o SignalKeys[j] \o "'"
IsnanTypeError == "ufunc 'isnan' not supported for the input types"
CompareTypeError == "'>' not supported between instances of 'NoneType' and 'float'"

Outcome(exc, signal, reason, compared, buy, sell) ==
    [exc |-> exc, signal |-> signal, reason |-> reason, compared |-> compared,
     buy |-> buy, sell |-> sell, raised |-> FALSE]

\* The body of the try block.  exc is the text of the exception the body
\* raises, "" when it returns; compared says whether control reached the
\* BUY / SELL comparisons; buy and sell are the two locals.
signal_try(row) ==
    IF FirstMissing(row) # 0
    THEN Outcome(KeyErrorText(FirstMissing(row)), "", "", FALSE, FALSE, FALSE)
    ELSE IF isnan_raises(row)
    THEN Outcome(IsnanTypeError, "", "", FALSE, FALSE, FALSE)
    ELSE IF isnan_any(row)
    THEN Outcome("", "HOLD", "Insufficient data", FALSE, FALSE, FALSE)
    ELSE IF row.Close.k = "none"
    THEN Outcome(CompareTypeError, "", "", TRUE, FALSE, FALSE)
    ELSE LET b == buy_cond(row)
             s == sell_cond(row)
         IN IF b
            THEN Outcome("", "BUY", "Above VWAP + EMA9>EMA21 + RSI in [55-70] + Vol>=1.5x",
                         TRUE, b, s)
            ELSE IF s
            THEN Outcome("", "SELL", "Below VWAP + EMA9<EMA21 + RSI in [30-45] + Vol>=1.3x",
                         TRUE, b, s)
            ELSE Outcome("", "HOLD", "Neutral/No clear setup", TRUE, b, s)

ErrorPrefix == "Error in signal: "

\* Without the except clause the exception leaves the function.
compute_signal_no_except(row) ==
    LET r == signal_try(row)
    IN IF r.exc # "" THEN [r EXCEPT !.raised = TRUE] ELSE r

\* try: ... except Exception as e: return "HOLD", f"Error in signal: {e}"
compute_signal(row) ==
    LET r == signal_try(row)
    IN IF r.exc # ""
       THEN [r EXCEPT !.signal = "HOLD", !.reason = ErrorPrefix \o r.exc]
       ELSE r

NoResult == Outcome("", "", "", FALSE, FALSE, FALSE)
NoTelegram == [token |-> "", chat_id |-> ""]
NoLog == [set |-> FALSE, entries |-> <<>>]
NoVisits == [movers |-> <<>>, signals |-> <<>>, sends |-> <<>>]
NoRow == [Close |-> Missing, VWAP |-> Missing, EMA9 |-> Missing, EMA21 |-> Missing,
          RSI6 |-> Missing, vol_ratio |-> Missing]

(***************************************************************************)
(* The classifier on its own: every row over the sample cells               *)
(***************************************************************************)
Malformed == {NaN, NoneVal, Missing}
PriceCells == {Num(90, 1), Num(100, 1), Num(110, 1)} \cup Malformed
VwapCells == {Num(100, 1)} \cup Malformed
Ema9Cells == {Num(90, 1), Num(100, 1), Num(110, 1)} \cup Malformed
Ema21Cells == {Num(100, 1)} \cup Malformed
RsiCells == {Num(r, 1) : r \in {29, 30, 35, 45, 46, 50, 54, 55, 60, 70, 71}} \cup Malformed
VolCells == {Num(v, 100) : v \in {100, 129, 130, 140, 149, 150, 200}} \cup Malformed

SampleRows ==
    [Close : PriceCells, VWAP : VwapCells, EMA9 : Ema9Cells, EMA21 : Ema21Cells,
     RSI6 : RsiCells, vol_ratio : VolCells]

Idle ==
    /\ heap = <<>> /\ arg = 0 /\ ret = 0 /\ lib = <<>>
    /\ symbols = <<>> /\ top_n = 0 /\ idx = 0
    /\ records = <<>> /\ top_movers = <<>> /\ signal_rows = <<>>
    /\ telegram = NoTelegram /\ alert_log = NoLog /\ visited = NoVisits

InitSignal ==
    /\ pc = "row"
    /\ latest_row \in SampleRows
    /\ result = NoResult
    /\ Idle

Classify ==
    /\ pc = "row"
    /\ result' = compute_signal(latest_row)
    /\ pc' = "classified"
    /\ UNCHANGED <<latest_row, heap, arg, ret, lib, symbols, top_n, idx, records,
                   top_movers, signal_rows, telegram, alert_log, visited>>

NextSignal == Classify

SpecSignal == InitSignal /\ [][NextSignal]_vars

(***************************************************************************)
(* compute_indicators                                                       *)
(***************************************************************************)
\* A DataFrame: its OHLCV bars, its column names, and the derived cells of
\* each bar (empty until compute_indicators has filled them in).
BaseCols == {"Open", "High", "Low", "Close", "Volume"}
DerivedCols == {"TPV", "cum_TPV", "cum_vol", "VWAP", "EMA9", "EMA21", "RSI6", "ATR",
                "ATR_pct", "vol_mean20", "vol_ratio"}

Frame(bars) == [bars |-> bars, cols |-> BaseCols, derived |-> <<>>]

ROLL_WINDOW == 20

RECURSIVE SumTo(_, _, _)
\* f[lo] + ... + f[hi], the cells being numbers
SumTo(f, lo, hi) == IF hi < lo THEN Num(0, 1) ELSE Add(SumTo(f, lo, hi - 1), f[hi])

typical_price_no_div(bar) == Add(Add(Num(bar.High, 1), Num(bar.Low, 1)), Num(bar.Close, 1))

\* tp = (High + Low + Close) / 3.0
typical_price(bar) ==
    Div(Add(Add(Num(bar.High, 1), Num(bar.Low, 1)), Num(bar.Close, 1)), Num(3, 1))

\* The derived cells of bar i.  ta[i] holds what ta.ema, ta.rsi and ta.atr
\* return for bar i.
DerivedRow(bars, ta, i) ==
    LET tpv == [j \in 1..i |-> Mul(typical_price(bars[j]), Num(bars[j].Volume, 1))]
        vol == [j \in 1..i |-> Num(bars[j].Volume, 1)]
        cum_TPV == SumTo(tpv, 1, i)
        cum_vol == SumTo(vol, 1, i)
        first == IF i > ROLL_WINDOW THEN i - ROLL_WINDOW + 1 ELSE 1
        vol_mean20 == Div(SumTo(vol, first, i), Num(i - first + 1, 1))
    IN [TPV |-> tpv[i], cum_TPV |-> cum_TPV, cum_vol |-> cum_vol,
        VWAP |-> Div(cum_TPV, cum_vol),
        EMA9 |-> ta[i].EMA9, EMA21 |-> ta[i].EMA21, RSI6 |-> ta[i].RSI6,
        ATR |-> ta[i].ATR,
        ATR_pct |-> Mul(Div(ta[i].ATR, Num(bars[i].Close, 1)), Num(100, 1)),
        vol_mean20 |-> vol_mean20,
        vol_ratio |-> Div(vol[i], vol_mean20)]

\* df['X'] = ... for every derived column: the frame itself is changed.
Enrich(df, ta) ==
    [df EXCEPT !.cols = df.cols \cup DerivedCols,
               !.derived = [i \in 1..Len(df.bars) |-> DerivedRow(df.bars, ta, i)]]

\* A variant that works on a copy and leaves its argument alone.
compute_indicators_copy(h, id, ta) ==
    IF h[id].bars = <<>>
    THEN [heap |-> h, ret |-> id]
    ELSE [heap |-> Append(h, Enrich(h[id], ta)), ret |-> Len(h) + 1]

\* compute_indicators(df): h is the heap of frames, id the frame passed in.
compute_indicators(h, id, ta) ==
    IF h[id].bars = <<>>
    THEN [heap |-> h, ret |-> id]
    ELSE [heap |-> [h EXCEPT ![id] = Enrich(h[id], ta)], ret |-> id]

(***************************************************************************)
(* compute_indicators on its own: every series over the sample bars         *)
(***************************************************************************)
MaxBars == 3

PriceSamples == {1, 2}
VolumeSamples == {0, 2}

\* Bars satisfying low <= open, close <= high and volume >= 0.
BarSamples ==
    {[Open |-> l, High |-> h, Low |-> l, Close |-> c, Volume |-> v] :
        <<l, c, h, v>> \in {q \in PriceSamples \X PriceSamples \X PriceSamples \X VolumeSamples :
                               q[1] <= q[2] /\ q[2] <= q[3]}}

SeriesSamples == UNION {[1..n -> BarSamples] : n \in 0..MaxBars}

\* Library results: still warming up (undefined), or defined.
TaWarmup == [EMA9 |-> NaN, EMA21 |-> NaN, RSI6 |-> NaN, ATR |-> NaN]
TaDefined == [EMA9 |-> Num(101, 1), EMA21 |-> Num(100, 1), RSI6 |-> Num(60, 1),
              ATR |-> Num(1, 1)]
TaSamples == {TaWarmup, TaDefined}

InitIndicators ==
    /\ pc = "frame"
    /\ \E bars \in SeriesSamples, t \in TaSamples :
          /\ heap = <<Frame(bars)>>
          /\ lib = [i \in 1..Len(bars) |-> t]
    /\ arg = 1 /\ ret = 0
    /\ latest_row = NoRow /\ result = NoResult
    /\ symbols = <<>> /\ top_n = 0 /\ idx = 0
    /\ records = <<>> /\ top_movers = <<>> /\ signal_rows = <<>>
    /\ telegram = NoTelegram /\ alert_log = NoLog /\ visited = NoVisits

\* df = compute_indicators(df)
CallIndicators ==
    /\ pc = "frame"
    /\ LET r == compute_indicators(heap, arg, lib)
       IN heap' = r.heap /\ ret' = r.ret
    /\ pc' = "called"
    /\ UNCHANGED <<latest_row, result, arg, lib, symbols, top_n, idx, records,
                   top_movers, signal_rows, telegram, alert_log, visited>>

\* a second call on the same object
CallIndicatorsAgain ==
    /\ pc = "called"
    /\ LET r == compute_indicators(heap, arg, lib)
       IN heap' = r.heap /\ ret' = r.ret
    /\ pc' = "recalled"
    /\ UNCHANGED <<latest_row, result, arg, lib, symbols, top_n, idx, records,
                   top_movers, signal_rows, telegram, alert_log, visited>>

NextIndicators == CallIndicators \/ CallIndicatorsAgain

SpecIndicators == InitIndicators /\ [][NextIndicators]_vars

(***************************************************************************)
(* The script: select_top_movers, the signal loop, the alert log            *)
(***************************************************************************)
\* What yf.download answers for one symbol: it raises, or it returns a frame
\* of which dropna() keeps bars and drops nan_rows rows; ta is what pandas_ta
\* returns for the kept bars.
Fetched(raises, bars, nan_rows, t) ==
    [raises |-> raises, bars |-> bars, nan_rows |-> nan_rows,
     ta |-> [i \in 1..Len(bars) |-> t]]

\* df.iloc[-1] of an enriched frame
LatestRow(df) ==
    LET i == Len(df.bars)
        d == df.derived[i]
    IN [Open |-> Num(df.bars[i].Open, 1), Close |-> Num(df.bars[i].Close, 1),
        VWAP |-> d.VWAP, EMA9 |-> d.EMA9, EMA21 |-> d.EMA21, RSI6 |-> d.RSI6,
        ATR_pct |-> d.ATR_pct, vol_ratio |-> d.vol_ratio]

MoverRecord(sym, pct, vr, atr, price) ==
    [symbol |-> sym, pct_change |-> pct, vol_ratio |-> vr, atr_pct |-> atr, price |-> price]

SkipMover == [ok |-> FALSE, rec |-> MoverRecord("", NaN, NaN, NaN, NaN)]

\* A variant that records a symbol without data with zeros instead of
\* skipping it.
mover_body_zero(sym, out) ==
    IF out.raises \/ out.bars = <<>>
    THEN [ok |-> TRUE,
          rec |-> MoverRecord(sym, Num(0, 1), Num(0, 1), Num(0, 1), Num(0, 1))]
    ELSE LET df == compute_indicators(<<Frame(out.bars)>>, 1, out.ta).heap[1]
             latest == LatestRow(df)
             open0 == Num(df.bars[1].Open, 1)
         IN [ok |-> TRUE,
             rec |-> MoverRecord(sym,
                         Mul(Div(Sub(latest.Close, open0), open0), Num(100, 1)),
                         latest.vol_ratio, latest.ATR_pct, latest.Close)]

\* The body of the for-loop of select_top_movers for one symbol: the record
\* it appends, or nothing (continue).
mover_body(sym, out) ==
    IF out.raises
    THEN SkipMover                                  \* except Exception: continue
    ELSE IF Len(out.bars) + out.nan_rows = 0
    THEN SkipMover                                  \* if df.empty: continue
    ELSE LET r == compute_indicators(<<Frame(out.bars)>>, 1, out.ta)
             df == r.heap[r.ret]
         IN IF df.bars = <<>>
            THEN SkipMover                          \* df.iloc[-1]: IndexError
            ELSE LET latest == LatestRow(df)
                     open0 == Num(df.bars[1].Open, 1)
                     percent_change ==
                         Mul(Div(Sub(latest.Close, open0), open0), Num(100, 1))
                 IN [ok |-> TRUE,
                     rec |-> MoverRecord(sym, percent_change, latest.vol_ratio,
                                         latest.ATR_pct, latest.Close)]

\* df_rec['score'] = vol_ratio * 2.0 + atr_pct * 1.0 + pct_change.abs() * 1.0
score(rec) ==
    Add(Add(Mul(rec.vol_ratio, Num(2, 1)), Mul(rec.atr_pct, Num(1, 1))),
        Mul(Abs(rec.pct_change), Num(1, 1)))

WithScore(rec) ==
    [symbol |-> rec.symbol, pct_change |-> rec.pct_change, vol_ratio |-> rec.vol_ratio,
     atr_pct |-> rec.atr_pct, price |-> rec.price, score |-> score(rec)]

MayPrecedeAscending(a, b) == IsNaN(b) \/ Le(a, b)

\* sort_values(by='score', ascending=False): a may come before b when
\* a >= b; NaN scores go last.
MayPrecede(a, b) == IsNaN(b) \/ Ge(a, b)

Orderings(n) == {p \in [1..n -> 1..n] : \A i, j \in 1..n : p[i] = p[j] => i = j}

\* The default sort kind is not stable: every arrangement of the rows that
\* is in order is a possible result.
sort_values(rows) ==
    {sorted \in {[i \in 1..Len(rows) |-> rows[p[i]]] : p \in Orderings(Len(rows))} :
        \A i, j \in 1..Len(rows) : i < j => MayPrecede(sorted[i].score, sorted[j].score)}

\* df.head(n), n >= 0
head(rows, n) == SubSeq(rows, 1, IF n < Len(rows) THEN n ELSE Len(rows))

SignalRow(sym, latest, signal, reason) ==
    [Symbol |-> sym, Price |-> latest.Close, VWAP |-> latest.VWAP, EMA9 |-> latest.EMA9,
     EMA21 |-> latest.EMA21, RSI6 |-> latest.RSI6, VolRatio |-> latest.vol_ratio,
     Signal |-> signal, Reason |-> reason]

SkipSignal == [ok |-> FALSE, row |-> SignalRow("", NoRow, "", "")]

\* The body of the signal loop for one top mover: the row it appends, or
\* nothing (continue).
signal_body(sym, out) ==
    IF out.raises
    THEN SkipSignal                                 \* except Exception: continue
    ELSE IF Len(out.bars) + out.nan_rows = 0
    THEN SkipSignal                                 \* if df.empty: continue
    ELSE LET r == compute_indicators(<<Frame(out.bars)>>, 1, out.ta)
             df == r.heap[r.ret]
         IN IF df.bars = <<>>
            THEN SkipSignal                         \* df.iloc[-1]: IndexError
            ELSE LET latest == LatestRow(df)
                     sig == compute_signal(latest)
                 IN IF sig.raised
                    THEN SkipSignal                 \* except Exception: continue
                    ELSE [ok |-> TRUE,
                          row |-> SignalRow(sym, latest, sig.signal, sig.reason)]

\* if 'alert_log' not in st.session_state: st.session_state['alert_log'] = []
ensure_log_reset(log) == [set |-> TRUE, entries |-> <<>>]

ensure_log(log) == IF log.set THEN log ELSE [set |-> TRUE, entries |-> <<>>]

\* What requests.post does: it answers with a status and a body, or raises
\* (timeout, connection error).
Response(status, text) == [raises |-> FALSE, status |-> status, text |-> text]
Failure(text) == [raises |-> TRUE, status |-> 0, text |-> text]

HTTP_OK == 200

SendResult(raised, ok, resp) == [raised |-> raised, ok |-> ok, resp |-> resp]

send_telegram_message_no_except(bot_token, chat_id, net) ==
    IF bot_token = "" \/ chat_id = ""
    THEN SendResult(FALSE, FALSE, "No bot token/chat id")
    ELSE IF net.raises
    THEN SendResult(TRUE, FALSE, "")
    ELSE IF net.status = HTTP_OK
    THEN SendResult(FALSE, TRUE, net.text)
    ELSE SendResult(FALSE, FALSE, ToString(net.status) \o ": " \o net.text)

\* send_telegram_message(bot_token, chat_id, text)
send_telegram_message(bot_token, chat_id, net) ==
    IF bot_token = "" \/ chat_id = ""
    THEN SendResult(FALSE, FALSE, "No bot token/chat id")
    ELSE IF net.raises
    THEN SendResult(FALSE, FALSE, net.text)         \* except: return False, str(e)
    ELSE IF net.status = HTTP_OK
    THEN SendResult(FALSE, TRUE, net.text)
    ELSE SendResult(FALSE, FALSE, ToString(net.status) \o ": " \o net.text)

RESP_LIMIT == 200

\* str(resp)[:200]
Truncate(text) == IF Len(text) > RESP_LIMIT THEN SubSeq(text, 1, RESP_LIMIT) ELSE text

\* The entry appended to the alert log (its time stamp is left out).
LogEntry(row, sent, resp) ==
    [symbol |-> row.Symbol, signal |-> row.Signal, sent |-> sent, resp |-> Truncate(resp)]

\* A run of the script starts: the sidebar inputs are read.  An empty ticker
\* list ends the run at st.stop().
StartRun(lists, tops, creds) ==
    /\ pc = "idle"
    /\ \E l \in lists, n \in tops, c \in creds :
          /\ symbols' = l
          /\ top_n' = n
          /\ telegram' = c
          /\ pc' = IF l = <<>> THEN "end" ELSE "movers"
    /\ idx' = 1
    /\ UNCHANGED <<latest_row, result, heap, arg, ret, lib, records, top_movers,
                   signal_rows, alert_log, visited>>

\* select_top_movers: one turn of the loop over symbol_list
MoverStep(samples) ==
    /\ pc = "movers"
    /\ idx <= Len(symbols)
    /\ \E out \in samples :
          LET b == mover_body(symbols[idx], out)
          IN /\ records' = IF b.ok THEN Append(records, b.rec) ELSE records
             /\ visited' = [visited EXCEPT !.movers =
                                Append(@, [symbol |-> symbols[idx], out |-> out])]
    /\ idx' = idx + 1
    /\ UNCHANGED <<pc, latest_row, result, heap, arg, ret, lib, symbols, top_n,
                   top_movers, signal_rows, telegram, alert_log>>

\* select_top_movers: after the loop, score, sort, head(top_n) and return
Rank ==
    /\ pc = "movers"
    /\ idx > Len(symbols)
    /\ IF records = <<>>
       THEN top_movers' = <<>>
       ELSE \E sorted \in sort_values([i \in 1..Len(records) |-> WithScore(records[i])]) :
                top_movers' = head(sorted, top_n)
    /\ pc' = "signals"
    /\ idx' = 1
    /\ UNCHANGED <<latest_row, result, heap, arg, ret, lib, symbols, top_n, records,
                   signal_rows, telegram, alert_log, visited>>

\* one turn of the loop over top_movers
SignalStep(samples) ==
    /\ pc = "signals"
    /\ idx <= Len(top_movers)
    /\ \E out \in samples :
          LET b == signal_body(top_movers[idx].symbol, out)
          IN /\ signal_rows' = IF b.ok THEN Append(signal_rows, b.row) ELSE signal_rows
             /\ visited' = [visited EXCEPT !.signals =
                                Append(@, [symbol |-> top_movers[idx].symbol, out |-> out])]
    /\ idx' = idx + 1
    /\ UNCHANGED <<pc, latest_row, result, heap, arg, ret, lib, symbols, top_n, records,
                   top_movers, telegram, alert_log>>

\* after the loop: the alert log is created if the session has none
EnsureLog ==
    /\ pc = "signals"
    /\ idx > Len(top_movers)
    /\ alert_log' = ensure_log(alert_log)
    /\ pc' = "button"
    /\ UNCHANGED <<latest_row, result, heap, arg, ret, lib, symbols, top_n, idx, records,
                   top_movers, signal_rows, telegram, visited>>

\* "Send Telegram Alerts for current signals": not pressed, pressed without
\* token or chat id (st.error), or pressed and the batch starts.  cap bounds
\* the length of the log.
Button(presses, cap) ==
    /\ pc = "button"
    /\ \E pressed \in presses :
          /\ pressed => Len(alert_log.entries) + Len(signal_rows) <= cap
          /\ pc' = IF pressed /\ telegram.token # "" /\ telegram.chat_id # ""
                   THEN "send" ELSE "end"
    /\ idx' = 1
    /\ UNCHANGED <<latest_row, result, heap, arg, ret, lib, symbols, top_n, records,
                   top_movers, signal_rows, telegram, alert_log, visited>>

\* one delivery of the batch: send, then append to the log
SendStep(nets) ==
    /\ pc = "send"
    /\ idx <= Len(signal_rows)
    /\ \E net \in nets :
          LET r == send_telegram_message(telegram.token, telegram.chat_id, net)
          IN /\ visited' = [visited EXCEPT !.sends = Append(@, net)]
             /\ IF r.raised
                THEN /\ pc' = "end"                  \* the exception ends the run
                     /\ UNCHANGED <<idx, alert_log>>
                ELSE /\ alert_log' = [alert_log EXCEPT !.entries =
                                         Append(@, LogEntry(signal_rows[idx], r.ok, r.resp))]
                     /\ idx' = idx + 1
                     /\ pc' = pc
    /\ UNCHANGED <<latest_row, result, heap, arg, ret, lib, symbols, top_n, records,
                   top_movers, signal_rows, telegram>>

\* st.info(...) after the batch
SendDone ==
    /\ pc = "send"
    /\ idx > Len(signal_rows)
    /\ pc' = "end"
    /\ UNCHANGED <<latest_row, result, heap, arg, ret, lib, symbols, top_n, idx, records,
                   top_movers, signal_rows, telegram, alert_log, visited>>

\* The run ends; its locals go, the session state stays.
EndRun ==
    /\ pc = "end"
    /\ pc' = "idle"
    /\ symbols' = <<>> /\ top_n' = 0 /\ idx' = 0
    /\ records' = <<>> /\ top_movers' = <<>> /\ signal_rows' = <<>>
    /\ telegram' = NoTelegram /\ visited' = NoVisits
    /\ UNCHANGED <<latest_row, result, heap, arg, ret, lib, alert_log>>

InitScript ==
    /\ pc = "idle"
    /\ latest_row = NoRow /\ result = NoResult
    /\ Idle

(***************************************************************************)
(* Sample answers of the outside world                                      *)
(***************************************************************************)
Bar(o, h, l, c, v) == [Open |-> o, High |-> h, Low |-> l, Close |-> c, Volume |-> v]

SeriesUp == <<Bar(2, 2, 2, 2, 1), Bar(4, 4, 4, 4, 3)>>
SeriesDown == <<Bar(4, 4, 4, 4, 1), Bar(2, 2, 2, 2, 3)>>
SeriesZero == <<Bar(2, 2, 2, 2, 0)>>
TaBear == [EMA9 |-> Num(99, 1), EMA21 |-> Num(100, 1), RSI6 |-> Num(35, 1),
           ATR |-> Num(1, 1)]

FetchUp == Fetched(FALSE, SeriesUp, 0, TaDefined)       \* a BUY row, score 128
FetchDown == Fetched(FALSE, SeriesDown, 0, TaBear)      \* a SELL row, score 103
FetchWarmup == Fetched(FALSE, SeriesZero, 0, TaWarmup)  \* NaN indicators and score
FetchEmpty == Fetched(FALSE, <<>>, 0, TaWarmup)         \* an empty frame
FetchAllNaN == Fetched(FALSE, <<>>, 1, TaWarmup)        \* dropna() leaves nothing
FetchRaises == Fetched(TRUE, <<>>, 0, TaWarmup)         \* yf.download raises

NetOk == Response(200, "{ok:true}")
NetRefused == Response(429, "Too Many Requests")
NetTimeout == Failure("Read timed out. (read timeout=5)")
NetSamples == {NetOk, NetRefused, NetTimeout}

Lists(syms, n) == UNION {[1..m -> syms] : m \in 1..n}

(***************************************************************************)
(* select_top_movers on its own                                             *)
(***************************************************************************)
MaxSymbols == 3
MaxTopN == 3
MoverSymbols == {"A", "B", "C"}
MoverSamples == {FetchUp, FetchDown, FetchWarmup, FetchEmpty}

InitMovers ==
    /\ pc = "movers"
    /\ symbols \in Lists(MoverSymbols, MaxSymbols)
    /\ top_n \in 1..MaxTopN
    /\ idx = 1
    /\ latest_row = NoRow /\ result = NoResult
    /\ heap = <<>> /\ arg = 0 /\ ret = 0 /\ lib = <<>>
    /\ records = <<>> /\ top_movers = <<>> /\ signal_rows = <<>>
    /\ telegram = NoTelegram /\ alert_log = NoLog /\ visited = NoVisits

MoverTurn == MoverStep(MoverSamples)

NextMovers == MoverTurn \/ Rank

SpecMovers == InitMovers /\ [][NextMovers]_vars

(***************************************************************************)
(* A scan: both per-symbol loops of a run, the alert button not pressed     *)
(***************************************************************************)
MaxScanSymbols == 3
TOP_N_MIN == 3
ScanSymbols == {"A", "B"}
ScanSamples == {FetchUp, FetchEmpty, FetchAllNaN, FetchRaises}
\* the smallest value the sidebar allows for "Top N movers to watch"
ScanTops == {TOP_N_MIN}

ScanStart == StartRun(Lists(ScanSymbols, MaxScanSymbols) \cup {<<>>}, ScanTops, {NoTelegram})
ScanMoverTurn == MoverStep(ScanSamples)
ScanSignalTurn == SignalStep(ScanSamples)
ScanButton == Button({FALSE}, 0)

NextScan ==
    \/ ScanStart \/ ScanMoverTurn \/ Rank \/ ScanSignalTurn \/ EnsureLog
    \/ ScanButton \/ EndRun

SpecScan == InitScript /\ [][NextScan]_vars

(***************************************************************************)
(* A session: runs of the script, one after the other, with the button      *)
(***************************************************************************)
MaxLog == 3
SessionLists == {<<>>, <<"A">>, <<"A", "B">>}
SessionSamples == {FetchUp, FetchEmpty}
SessionCreds == {[token |-> "T", chat_id |-> "C"], [token |-> "", chat_id |-> "C"]}

SessionStart == StartRun(SessionLists, ScanTops, SessionCreds)
SessionMoverTurn == MoverStep(SessionSamples)
SessionSignalTurn == SignalStep(SessionSamples)
SessionButton == Button(BOOLEAN, MaxLog)
SessionSend == SendStep(NetSamples)

Next ==
    \/ SessionStart \/ SessionMoverTurn \/ Rank \/ SessionSignalTurn \/ EnsureLog
    \/ SessionButton \/ SessionSend \/ SendDone \/ EndRun

Spec == InitScript /\ [][Next]_vars

(***************************************************************************)
(* Claims about compute_signal (checked under SpecSignal)                   *)
(***************************************************************************)
Classified == pc = "classified"
Cells5Defined == \A j \in 1..5 : IsNum(CheckedCells(latest_row)[j])
Cells5SomeNaN == \E j \in 1..5 : IsNaN(CheckedCells(latest_row)[j])
\* every key is present and the five checked cells are numbers or NaN
Readable ==
    /\ \A j \in 1..Len(SignalKeys) : latest_row[SignalKeys[j]].k # "missing"
    /\ \A j \in 1..5 : CheckedCells(latest_row)[j].k # "none"

\* C1: for every row, whatever its cells hold, the BUY condition and the SELL
\* condition are never both true, neither as conditions on the row nor as the
\* two locals compute_signal evaluated.
C1_BuySellExclusive ==
    /\ ~(buy_cond(latest_row) /\ sell_cond(latest_row))
    /\ Classified => ~(result.buy /\ result.sell)

C1_Witness == Classified /\ result.compared /\ result.sell /\ result.signal = "SELL"

\* C2 as claimed: any NaN among the five checked cells gives HOLD with the
\* reason "insufficient data" (read here without regard to letter case),
\* decided before any comparison.
C2_Original ==
    (Classified /\ Cells5SomeNaN) =>
        /\ result.signal = "HOLD"
        /\ result.reason \in {"insufficient data", "Insufficient data"}
        /\ ~result.compared

\* C2 amended: when every key is present and the five checked cells are
\* numbers or NaN, any NaN among the five gives HOLD with the reason
\* "Insufficient data", decided before any comparison and without an error.
C2_InsufficientData ==
    (Classified /\ Readable /\ Cells5SomeNaN) =>
        /\ result.signal = "HOLD"
        /\ result.reason = "Insufficient data"
        /\ ~result.compared
        /\ result.exc = ""

C2_Witness ==
    /\ Classified /\ Readable /\ IsNaN(latest_row.vol_ratio)
    /\ \A j \in 1..4 : IsNum(CheckedCells(latest_row)[j])
    /\ result.reason = "Insufficient data"

\* The BUY and SELL rules as the claim states them, on the cells of the row.
C3_BuyRule ==
    /\ latest_row.Close.n * latest_row.VWAP.d > latest_row.VWAP.n * latest_row.Close.d
    /\ latest_row.EMA9.n * latest_row.EMA21.d > latest_row.EMA21.n * latest_row.EMA9.d
    /\ latest_row.RSI6.n >= 55 * latest_row.RSI6.d
    /\ latest_row.RSI6.n <= 70 * latest_row.RSI6.d
    /\ 10 * latest_row.vol_ratio.n >= 15 * latest_row.vol_ratio.d

C3_SellRule ==
    /\ latest_row.Close.n * latest_row.VWAP.d < latest_row.VWAP.n * latest_row.Close.d
    /\ latest_row.EMA9.n * latest_row.EMA21.d < latest_row.EMA21.n * latest_row.EMA9.d
    /\ latest_row.RSI6.n >= 30 * latest_row.RSI6.d
    /\ latest_row.RSI6.n <= 45 * latest_row.RSI6.d
    /\ 10 * latest_row.vol_ratio.n >= 13 * latest_row.vol_ratio.d

\* C3 as claimed: with the five cells defined, BUY iff the BUY rule, SELL iff
\* the SELL rule, and otherwise HOLD with "neutral - no qualifying setup"
\* (the dash of the claimed reason is written as a hyphen).
C3_Original ==
    (Classified /\ Cells5Defined) =>
        /\ result.signal = "BUY" <=> (IsNum(latest_row.Close) /\ C3_BuyRule)
        /\ result.signal = "SELL" <=> (IsNum(latest_row.Close) /\ C3_SellRule)
        /\ result.signal \notin {"BUY", "SELL"} =>
               /\ result.signal = "HOLD"
               /\ result.reason = "neutral - no qualifying setup"

\* C3 amended: with the five cells defined and the close a number or NaN,
\* BUY iff the BUY rule, SELL iff the SELL rule, and otherwise HOLD with the
\* reason "Neutral/No clear setup".
C3_Rules ==
    (Classified /\ Cells5Defined /\ latest_row.Close.k \in {"num", "nan"}) =>
        /\ result.signal = "BUY" <=> (IsNum(latest_row.Close) /\ C3_BuyRule)
        /\ result.signal = "SELL" <=> (IsNum(latest_row.Close) /\ C3_SellRule)
        /\ result.signal \notin {"BUY", "SELL"} =>
               /\ result.signal = "HOLD"
               /\ result.reason = "Neutral/No clear setup"

C3_Witness ==
    /\ Classified /\ Cells5Defined /\ IsNum(latest_row.Close)
    /\ C3_BuyRule /\ result.signal = "BUY"
    /\ NumEq(latest_row.vol_ratio, Num(3, 2)) /\ NumEq(latest_row.RSI6, Num(70, 1))

\* The scenario row: close = VWAP = EMA9 = EMA21 = 100, RSI6 = 60, ratio 2.0.
C4_Scenario ==
    /\ NumEq(latest_row.Close, Num(100, 1)) /\ NumEq(latest_row.VWAP, Num(100, 1))
    /\ NumEq(latest_row.EMA9, Num(100, 1)) /\ NumEq(latest_row.EMA21, Num(100, 1))
    /\ NumEq(latest_row.RSI6, Num(60, 1)) /\ NumEq(latest_row.vol_ratio, Num(2, 1))

\* C4 as claimed: the scenario row classifies as BUY.
C4_Original == (Classified /\ C4_Scenario) => result.signal = "BUY"

\* C4 amended: the scenario row classifies as HOLD with the neutral reason,
\* because close > VWAP and EMA9 > EMA21 are strict and fail at equality.
C4_ScenarioHolds ==
    (Classified /\ C4_Scenario) =>
        /\ result.signal = "HOLD"
        /\ result.reason = "Neutral/No clear setup"
        /\ result.compared

C4_Witness == Classified /\ C4_Scenario /\ result.signal = "HOLD"

\* C5: compute_signal never lets an exception out and always returns one of
\* BUY, SELL, HOLD with a reason; an error inside (a missing key, a
\* non-numeric cell) gives HOLD with a reason that carries the error text.
C5_Total ==
    Classified =>
        /\ ~result.raised
        /\ result.signal \in {"BUY", "SELL", "HOLD"}
        /\ result.reason # ""
        /\ result.exc # "" =>
               (result.signal = "HOLD" /\ result.reason = ErrorPrefix \o result.exc)
        /\ (\E j \in 1..Len(SignalKeys) : latest_row[SignalKeys[j]].k = "missing")
               => result.exc # ""
        /\ (Readable /\ Cells5Defined /\ latest_row.Close.k = "none") => result.exc # ""

C5_Witness ==
    /\ Classified /\ latest_row.Close.k = "missing"
    /\ result.signal = "HOLD" /\ result.reason = "Error in signal: 'Close'"

(***************************************************************************)
(* Claims about compute_indicators (checked under SpecIndicators)           *)
(***************************************************************************)
Called == pc \in {"called", "recalled"}
InputBars == heap[arg].bars
MinLow(i) == CHOOSE m \in {InputBars[j].Low : j \in 1..i} :
                 \A j \in 1..i : m <= InputBars[j].Low
MaxHigh(i) == CHOOSE m \in {InputBars[j].High : j \in 1..i} :
                  \A j \in 1..i : m >= InputBars[j].High
CumVolume(i) == SumTo([j \in 1..i |-> Num(InputBars[j].Volume, 1)], 1, i).n
VwapAt(i) == heap[ret].derived[i].VWAP
VwapInRange(i) ==
    /\ IsNum(VwapAt(i))
    /\ VwapAt(i).n >= MinLow(i) * VwapAt(i).d
    /\ VwapAt(i).n <= MaxHigh(i) * VwapAt(i).d

C10_Original ==
    Called => /\ heap[arg].cols = BaseCols
              /\ heap[arg].derived = <<>>
              /\ InputBars # <<>> => ret # arg

\* C10 amended: compute_indicators returns the very object it was given; for
\* a non-empty series it has added the derived columns to that object in
\* place, leaving the OHLCV columns as they were, and an empty series is
\* returned untouched; a second call on the same object changes nothing.
C10_InPlace ==
    [][/\ (pc = "frame" /\ pc' = "called") =>
            /\ ret' = arg
            /\ Len(heap') = Len(heap)
            /\ heap'[arg].bars = heap[arg].bars
            /\ heap[arg].bars # <<>> =>
                   /\ heap'[arg].cols = BaseCols \cup DerivedCols
                   /\ Len(heap'[arg].derived) = Len(heap[arg].bars)
            /\ heap[arg].bars = <<>> => heap' = heap
       /\ (pc = "called" /\ pc' = "recalled") => (heap' = heap /\ ret' = ret)]_vars

C10_Witness ==
    /\ pc = "recalled" /\ ret = arg /\ InputBars # <<>>
    /\ "VWAP" \in heap[arg].cols /\ Len(heap[arg].derived) = Len(InputBars)

(***************************************************************************)
(* Claims about select_top_movers (checked under SpecMovers)                *)
(***************************************************************************)
Returned == pc = "signals"
Min(a, b) == IF a < b THEN a ELSE b
SymbolRank(sym) == CHOOSE r \in 1..3 : <<"A", "B", "C">>[r] = sym
\* score a is at least score b, a NaN score counting as the lowest
ScoreAtLeast(a, b) == b.k = "nan" \/ (a.k = "num" /\ b.k = "num" /\ a.n * b.d >= b.n * a.d)
ScoreAbove(a, b) == ScoreAtLeast(a, b) /\ ~ScoreAtLeast(b, a)
\* the returned list is made of min(top_n, q) different qualifying records,
\* and no record left out has a higher score than one returned
IsTopSelection ==
    /\ Len(top_movers) = Min(top_n, Len(records))
    /\ \E f \in [1..Len(top_movers) -> 1..Len(records)] :
          /\ \A i, j \in 1..Len(top_movers) : f[i] = f[j] => i = j
          /\ \A i \in 1..Len(top_movers) : top_movers[i] = WithScore(records[f[i]])
          /\ \A k \in 1..Len(records) :
                 (\A i \in 1..Len(top_movers) : f[i] # k) =>
                     \A i \in 1..Len(top_movers) :
                         ScoreAtLeast(top_movers[i].score, score(records[k]))

\* C6 as claimed: the first min(top_n, q) qualifying records by score
\* descending, equal scores in ascending symbol order.
C6_Original ==
    Returned =>
        /\ IsTopSelection
        /\ \A i, j \in 1..Len(top_movers) :
               i < j =>
                   \/ ScoreAbove(top_movers[i].score, top_movers[j].score)
                   \/ IsNaN(top_movers[i].score) /\ IsNaN(top_movers[j].score)
                   \/ /\ NumEq(top_movers[i].score, top_movers[j].score)
                      /\ SymbolRank(top_movers[i].symbol) <= SymbolRank(top_movers[j].symbol)

\* C6 amended: the returned list holds min(top_n, q) of the q qualifying
\* records, in descending score order (NaN scores last), and no record left
\* out scores higher than a returned one; the order among equal scores is
\* left to the sort and does not follow the symbol names.
C6_TopByScore ==
    Returned =>
        /\ IsTopSelection
        /\ \A i, j \in 1..Len(top_movers) :
               i < j => ScoreAtLeast(top_movers[i].score, top_movers[j].score)

C6_Witness ==
    /\ Returned /\ Len(records) > top_n /\ Len(top_movers) = 2
    /\ NumEq(top_movers[1].score, top_movers[2].score)
    /\ SymbolRank(top_movers[1].symbol) > SymbolRank(top_movers[2].symbol)
    /\ ScoreAbove(top_movers[2].score, score(records[Len(records)]))

(***************************************************************************)
(* Claims about the two per-symbol loops (checked under SpecScan)           *)
(***************************************************************************)
\* the fetch raised, returned an empty series, or left nothing to compute on
Failed(out) == out.raises \/ out.bars = <<>>
SymbolsOf(seq) == [i \in 1..Len(seq) |-> seq[i].symbol]
Survivors(visits) == SymbolsOf(SelectSeq(visits, LAMBDA v : ~Failed(v.out)))
SurvivingData(visits) == SelectSeq(visits, LAMBDA v : ~Failed(v.out))
LastClose(out) == Num(out.bars[Len(out.bars)].Close, 1)

Entries == alert_log.entries
Sending == pc = "send" /\ idx <= Len(signal_rows)

\* C8: across runs and batches the entries already in the log stay as they
\* are, in place; each delivery of a batch appends exactly one entry, for the
\* rows in order; a delivery that fails or times out is logged with
\* sent = FALSE and the error text, and the batch goes on to its last row.
C8_AppendOnly ==
    /\ [][alert_log.set =>
             /\ alert_log'.set
             /\ Len(alert_log'.entries) >= Len(Entries)
             /\ SubSeq(alert_log'.entries, 1, Len(Entries)) = Entries]_vars
    /\ [][Sending =>
             /\ pc' = "send" /\ idx' = idx + 1
             /\ Len(alert_log'.entries) = Len(Entries) + 1
             /\ LET e == alert_log'.entries[Len(Entries) + 1]
                    net == visited'.sends[Len(visited'.sends)]
                IN /\ Len(visited'.sends) = idx
                   /\ e.symbol = signal_rows[idx].Symbol
                   /\ e.signal = signal_rows[idx].Signal
                   /\ e.sent = (~net.raises /\ net.status = 200)
                   /\ net.raises => e.resp = net.text
                   /\ ~e.sent => e.resp # ""]_vars
    /\ [](pc = "end" /\ visited.sends # <<>> => Len(visited.sends) = Len(signal_rows))

C8_Witness ==
    /\ pc = "end" /\ Len(Entries) = 3 /\ Len(signal_rows) = 2
    /\ Len(visited.sends) = 2
    /\ visited.sends[1].raises /\ ~Entries[2].sent
    /\ Entries[2].resp = "Read timed out. (read timeout=5)"
    /\ Entries[3].sent /\ Entries[3].symbol = signal_rows[2].Symbol

====
